---- MODULE Spec2Model ----
(***************************************************************************)
(* Model of main.py: the multi-site job scan.  One run is one start of     *)
(* the process: the module-level set-up, main(), the per-source parsers    *)
(* parse_bdjobs / parse_unjobs, get_ai_summary, send_telegram and the      *)
(* history file written by save_history.                                   *)
(***************************************************************************)
EXTENDS Integers, Sequences, FiniteSets, TLC

(* ------------------------------ bounds --------------------------------- *)
\* number of starts of the process in one behaviour
MaxRuns == 2
\* number of cards / links of one listing page
MaxCards == 3
\* number of keywords of a keyword list the filter is applied with on its own
MaxKeywords == 2

(* --------------------------- configuration ----------------------------- *)
\* URLS, by the site each entry names
URLS == << "bdjobs.com", "unjobs.org" >>

KEYWORDS ==
    << <<"I","n","d","i","v","i","d","u","a","l"," ","C","o","n","s","u","l","t","a","n","t">>,
       <<"S","I","C">>,
       <<"C","o","n","s","u","l","t","a","n","t">>,
       <<"N","a","t","i","o","n","a","l"," ","C","o","n","s","u","l","t","a","n","t">>,
       <<"I","n","d","i","v","i","d","u","a","l"," ","L","o","c","a","l"," ","C","o","n","s","u","l","t","a","n","t">>,
       <<"L","o","c","a","l"," ","C","o","n","s","u","l","t","a","n","t">>,
       <<"E","n","v","i","r","o","n","m","e","n","t">>,
       <<"E","n","v","i","r","o","n","m","e","n","t","a","l">>,
       <<"N","a","t","u","r","a","l">>,
       <<"D","i","s","a","s","t","e","r">>,
       <<"W","a","t","e","r">>,
       <<"E","x","p","e","r","t">>,
       <<"P","r","o","g","r","a","m">>,
       <<"P","r","o","j","e","c","t">>,
       <<"C","o","o","r","d","i","n","a","t","o","r">>,
       <<"M","a","n","a","g","e","r">>,
       <<"C","l","i","m","a","t","e">>,
       <<"M","o","n","i","t","o","r","i","n","g">>,
       <<"E","v","a","l","u","a","t","i","o","n">>,
       <<"S","p","e","c","i","a","l","i","s","t">> >>

\* characters folded by str.lower()
UpperChars == <<"A","B","C","D","E","F","G","H","I","J","K","L","M","N","O","P","Q","R","S","T","U","V","W","X","Y","Z">>
LowerChars == <<"a","b","c","d","e","f","g","h","i","j","k","l","m","n","o","p","q","r","s","t","u","v","w","x","y","z">>

LowerChar(c) ==
    IF \E i \in 1..Len(UpperChars) : UpperChars[i] = c
    THEN LowerChars[CHOOSE i \in 1..Len(UpperChars) : UpperChars[i] = c]
    ELSE c

\* a comparison that keeps the case
LowerKeepsCase(s) == s

\* str.lower()
Lower(s) == [i \in 1..Len(s) |-> LowerChar(s[i])]

\* the Python test  a in b  on strings
IsSubstring(a, b) ==
    \E o \in 0..(Len(b) - Len(a)) : SubSeq(b, o + 1, o + Len(a)) = a

\* k.lower() for k in KEYWORDS
LoweredKeywords == [i \in 1..Len(KEYWORDS) |-> Lower(KEYWORDS[i])]

\* any(k in raw_title.lower() for k in lowered), lowered the keywords' k.lower()
AnyIn(lowered, raw_title) ==
    LET t == Lower(raw_title)
    IN  \E i \in 1..Len(lowered) : IsSubstring(lowered[i], t)

\* any(k.lower() in raw_title.lower() for k in KEYWORDS)
MatchesKeywords(raw_title) == AnyIn(LoweredKeywords, raw_title)

(* ------------------------------ postings ------------------------------- *)
TitleWash == <<"I","n","d","i","v","i","d","u","a","l"," ","C","o","n","s","u","l","t","a","n","t"," ","-"," ","W","A","S","H">>
TitleDriver == <<"D","r","i","v","e","r"," ","R","e","q","u","i","r","e","d">>
TitleUpper == <<"C","L","I","M","A","T","E"," ","O","F","F","I","C","E","R">>

TitleSenior == <<"S","e","n","i","o","r"," ","N","a","t","i","o","n","a","l"," ","C","o","n","s","u","l","t","a","n","t">>
TitleMusic == <<"m","u","S","i","c">>
Titles == { TitleWash, TitleDriver, TitleUpper }

\* an href attribute: host "" is a relative reference, NoHref a tag without
\* the attribute
NoHref == [host |-> "none", path |-> 0]
Rel(p) == [host |-> "", path |-> p]
Abs(h, p) == [host |-> h, path |-> p]

\* a link taken as the href stands, not resolved against the base
UrlJoinKeepsHref(base, href) == href

\* urllib.parse.urljoin(base, href) for a relative path or an absolute URL
UrlJoin(base, href) ==
    IF href.host = "" THEN [host |-> base, path |-> href.path]
    ELSE [host |-> href.host, path |-> href.path]

HostCode(h) == IF h = "bdjobs.com" THEN 1 ELSE IF h = "unjobs.org" THEN 2 ELSE 3

\* hashlib.md5(full_link.encode()).hexdigest(): a digest of the URL string,
\* distinct for the distinct URLs of the model
Md5(url) == HostCode(url.host) * 10 + url.path

\* a card of a listing page: tag is the presence of the title element
Card(tag, title, href) == [tag |-> tag, title |-> title, href |-> href]

BdPages ==
    { << Card(TRUE, TitleWash, Rel(1)),
         Card(FALSE, TitleWash, Rel(2)),
         Card(TRUE, TitleWash, Abs("bdjobs.com", 1)),
         Card(TRUE, TitleUpper, Rel(2)) >>,
      << Card(TRUE, TitleUpper, Rel(2)),
         Card(TRUE, TitleUpper, NoHref),
         Card(TRUE, TitleWash, Rel(1)),
         Card(TRUE, TitleDriver, Rel(2)) >> }

UnPages ==
    { << Card(TRUE, TitleWash, Rel(3)),
         Card(TRUE, TitleUpper, NoHref),
         Card(TRUE, TitleDriver, Rel(4)),
         Card(TRUE, TitleWash, Abs("unjobs.org", 3)) >> }

Min(a, b) == IF a < b THEN a ELSE b

\* the listings a site can show: no card at all, or the first cards of one of
\* its pages, at most MaxCards of them
Prefixes(pages) ==
    { << >> } \cup { SubSeq(p, 1, Min(MaxCards, Len(p))) : p \in pages }

Listings(url) == IF url = "bdjobs.com" THEN Prefixes(BdPages) ELSE Prefixes(UnPages)

\* identifiers a history file may hold before the first run
InitialHistories == SUBSET { Md5([host |-> "bdjobs.com", path |-> 1]),
                             Md5([host |-> "unjobs.org", path |-> 3]) }

\* every identifier the pages of the model can produce
AllIds == { Md5([host |-> h, path |-> p]) : h \in {"bdjobs.com", "unjobs.org"}, p \in 1..4 }

(* ------------------------------- state --------------------------------- *)
VARIABLES
    OPENROUTER_API_KEY, \* TRUE when the environment sets it (to a non-empty value)
    OPENAI_API_KEY,     \* TRUE when the environment sets the client library's own
                        \* key, which is read only when OPENROUTER_API_KEY is unset
    listing,            \* site -> the cards its listing page shows
    file,               \* HISTORY_FILE: the lines it holds
    pc,                 \* where the process is
    run,                \* number of the current start of the process
    seen_jobs,          \* main's seen_jobs
    files_changed,      \* main's files_changed
    new_found,          \* the running parser's new_found
    srcIdx,             \* position of main's loop in URLS
    cardIdx,            \* position of the parser's loop in the listing
    cur,                \* the posting being processed: id, title, link, data
    towrite,            \* items save_history has still to write
    abortCause,         \* the call whose exception ended the process
    ev,                 \* what the last step did
    lastMsg,            \* the message of the last send_telegram call
    fileAtStart,        \* the file as it was when the run started
    fetchRes,           \* site -> how the fetch and parse of its listing went in this run
    detailRun,          \* id -> detail-page fetches in this run
    summRun,            \* id -> get_ai_summary calls in this run
    sentRun,            \* id -> send_telegram calls in this run
    sentTotal,          \* id -> send_telegram calls in all runs
    undelivered,        \* ids whose send_telegram call failed in transport in this run
    writes,             \* times this run opened the file for writing
    reads,              \* times this run called load_history
    listingRun,         \* site -> listing fetches in this run
    slept,              \* no detail fetch of the current source since its last time.sleep(2)
    probe,              \* a function of the program applied on its own: its inputs
                        \* and, once applied, its result
    prev                \* the previous run, when it ran to the end of main: the sites it
                        \* fetched and the ids whose notification failed

vars ==
    << OPENROUTER_API_KEY, OPENAI_API_KEY, listing, file, pc, run, seen_jobs,
       files_changed, new_found, srcIdx, cardIdx, cur, towrite, abortCause, ev,
       lastMsg, fileAtStart, fetchRes, listingRun, detailRun, summRun, sentRun, sentTotal,
       undelivered, writes, reads, slept, probe, prev >>

\* what no step of a run changes
config == << OPENROUTER_API_KEY, OPENAI_API_KEY, listing, probe >>
locals == << seen_jobs, files_changed, new_found, srcIdx, cardIdx, cur, towrite >>
counts == << detailRun, summRun, sentRun, sentTotal, undelivered, lastMsg >>

Sites == { URLS[i] : i \in 1..Len(URLS) }
Zero == [id \in AllIds |-> 0]
NoCur == [id |-> 0, title |-> << >>, link |-> NoHref, site |-> "", data |-> "None"]
NoMsg == [id |-> 0, title |-> << >>, link |-> NoHref, site |-> "", fields |-> {}]
NoFetch == [s \in Sites |-> "none"]
NoPrev == [done |-> FALSE, fetched |-> {}, undelivered |-> {}]

Stopped == { "done", "aborted", "import_error", "crashed" }

NoProbe == [kind |-> "none"]

\* the process about to start for the first time
StartState ==
    /\ pc = "boot"
    /\ run = 1
    /\ seen_jobs = {}
    /\ files_changed = FALSE
    /\ new_found = FALSE
    /\ srcIdx = 1
    /\ cardIdx = 1
    /\ cur = NoCur
    /\ towrite = {}
    /\ abortCause = "none"
    /\ ev = "start"
    /\ lastMsg = NoMsg
    /\ fileAtStart = file
    /\ fetchRes = NoFetch
    /\ listingRun = [s \in Sites |-> 0]
    /\ detailRun = Zero
    /\ summRun = Zero
    /\ sentRun = Zero
    /\ sentTotal = Zero
    /\ undelivered = {}
    /\ writes = 0
    /\ reads = 0
    /\ slept = TRUE
    /\ prev = NoPrev

Init ==
    /\ OPENROUTER_API_KEY \in BOOLEAN
    /\ OPENAI_API_KEY \in (IF OPENROUTER_API_KEY THEN { FALSE } ELSE BOOLEAN)
    /\ listing \in [Sites -> Prefixes(BdPages) \cup Prefixes(UnPages)]
    /\ \A s \in Sites : listing[s] \in Listings(s)
    /\ file \in InitialHistories
    /\ probe = NoProbe
    /\ StartState

(* ------------------------- module-level set-up ------------------------- *)
\* client = OpenAI(base_url=..., api_key=OPENROUTER_API_KEY): with api_key None
\* the client takes the key of its own environment variable and raises when
\* that is unset too
ClientConstructs == OPENROUTER_API_KEY \/ OPENAI_API_KEY

ModuleLoad ==
    /\ pc = "boot"
    /\ IF ClientConstructs
       THEN pc' = "load" /\ ev' = "loaded_module" /\ UNCHANGED abortCause
       ELSE pc' = "import_error" /\ ev' = "client_error" /\ abortCause' = "client"
    /\ UNCHANGED << config, file, run, locals, counts, fileAtStart, fetchRes, listingRun, writes, reads, slept, prev >>

(* ------------------------------ history -------------------------------- *)
\* what load_history returns for the file
LoadResult(f) == f

\* seen_jobs = load_history(); an unreadable file raises out of main
LoadHistory ==
    /\ pc = "load"
    /\ \E ok \in BOOLEAN :
         IF ok
         THEN /\ seen_jobs' = LoadResult(file)
              /\ files_changed' = FALSE
              /\ srcIdx' = 1
              /\ pc' = "source"
              /\ ev' = "loaded"
              /\ UNCHANGED abortCause
         ELSE /\ pc' = "aborted"
              /\ abortCause' = "load"
              /\ ev' = "load_failed"
              /\ UNCHANGED << seen_jobs, files_changed, srcIdx >>
    /\ UNCHANGED << config, file, run, new_found, cardIdx, cur, towrite, counts,
                    fileAtStart, fetchRes, listingRun, writes, slept, prev >>
    /\ reads' = reads + 1

(* ------------------------------- main ---------------------------------- *)
Inc(f, id) == [f EXCEPT ![id] = @ + 1]

\* a main without the try: the exception ends the process
SourceErrorPcRaises == "aborted"

\* where main goes on when the fetch or the parse of a listing raises:
\* except Exception prints, inside the loop
SourceErrorPc == "source"

\* a loop that asks the same url again after a failure
AfterSourceErrorRetries(i) == i

\* a try around the whole loop: one failing source ends the scan
AfterSourceErrorGivesUp(i) == Len(URLS) + 1

\* and the loop takes the next url
AfterSourceError(i) == i + 1

\* sites whose listing was fetched and parsed in this run
OkSites == { s \in Sites : fetchRes[s] = "ok" }

\* requests.get(url, ..., timeout=20), BeautifulSoup(response.content) and the
\* parser's find_all for URLS[srcIdx]
FetchSource ==
    /\ pc = "source"
    /\ srcIdx <= Len(URLS)
    /\ \E outcome \in { "ok", "fetch_failed", "parse_failed" } :
         /\ ev' = outcome
         /\ fetchRes' = [fetchRes EXCEPT ![URLS[srcIdx]] = outcome]
         /\ listingRun' = Inc(listingRun, URLS[srcIdx])
         /\ IF outcome = "ok"
            THEN /\ pc' = "card"
                 /\ cardIdx' = 1
                 /\ new_found' = FALSE
                 /\ UNCHANGED << srcIdx, abortCause >>
            ELSE /\ pc' = SourceErrorPc
                 /\ abortCause' = IF SourceErrorPc = "aborted" THEN outcome ELSE abortCause
                 /\ srcIdx' = AfterSourceError(srcIdx)
                 /\ UNCHANGED << cardIdx, new_found >>
    /\ UNCHANGED << config, file, run, seen_jobs, files_changed, cur, towrite, counts,
                    fileAtStart, writes, reads, slept, prev >>

\* the parser of a site reads the title from a title element (bdjobs) or from
\* the link itself (unjobs)
NeedsTitleTag(site) == site = "bdjobs.com"

\* a parser that reads the link with .get('href'): a missing attribute joins
\* to the base URL and is taken for a posting
CardOutcomeHrefUnchecked(site, card, seen) ==
    IF NeedsTitleTag(site) /\ ~card.tag THEN "card_error"
    ELSE IF ~MatchesKeywords(card.title) THEN "filtered"
    ELSE IF Md5(UrlJoin(site, card.href)) \in seen THEN "seen"
    ELSE "new"

\* a parser without the keyword test
CardOutcomeUnfiltered(site, card, seen, passes) ==
    IF NeedsTitleTag(site) /\ ~card.tag THEN "card_error"
    ELSE IF card.href = NoHref THEN "card_error"
    ELSE IF Md5(UrlJoin(site, card.href)) \in seen THEN "seen"
    ELSE "new"

\* what one pass of the parser's loop body does with a card, up to the
\* membership test: an exception ("card_error"), a continue ("filtered",
\* "seen") or a new posting ("new")
CardOutcomeWith(site, card, seen, passes) ==
    IF NeedsTitleTag(site) /\ ~card.tag THEN "card_error"
    ELSE IF ~passes THEN "filtered"
    ELSE IF card.href = NoHref THEN "card_error"
    ELSE IF Md5(UrlJoin(site, card.href)) \in seen THEN "seen"
    ELSE "new"

\* with the filter over KEYWORDS
CardOutcome(site, card, seen) ==
    CardOutcomeWith(site, card, seen, MatchesKeywords(card.title))

\* a parser that forgets to record the posting
MarkSeenForgets(seen, id) == seen

\* seen_jobs.add(job_id)
MarkSeen(seen, id) == seen \cup { id }

\* one card of parse_bdjobs / parse_unjobs, up to seen_jobs.add and new_found
CardStep ==
    /\ pc = "card"
    /\ cardIdx <= Len(listing[URLS[srcIdx]])
    /\ LET site == URLS[srcIdx]
           card == listing[site][cardIdx]
           out == CardOutcome(site, card, seen_jobs)
           link == UrlJoin(site, card.href)
       IN  /\ ev' = out
           /\ IF out = "new"
              THEN /\ seen_jobs' = MarkSeen(seen_jobs, Md5(link))
                   /\ new_found' = TRUE
                   /\ cur' = [id |-> Md5(link), title |-> card.title, link |-> link,
                              site |-> site, data |-> "None"]
                   /\ pc' = "detail"
                   /\ UNCHANGED cardIdx
              ELSE /\ cardIdx' = cardIdx + 1
                   /\ UNCHANGED << seen_jobs, new_found, cur, pc >>
    /\ UNCHANGED << config, file, run, files_changed, srcIdx, towrite, abortCause, counts,
                    fileAtStart, fetchRes, listingRun, writes, reads, slept, prev >>

\* return new_found, and main's  if parse_...(soup, seen_jobs): files_changed = True
ParserReturn ==
    /\ pc = "card"
    /\ cardIdx > Len(listing[URLS[srcIdx]])
    /\ files_changed' = (files_changed \/ new_found)
    /\ srcIdx' = srcIdx + 1
    /\ pc' = "source"
    /\ ev' = "parsed"
    /\ UNCHANGED << config, file, run, seen_jobs, new_found, cardIdx, cur, towrite,
                    abortCause, counts, fileAtStart, fetchRes, listingRun, writes, reads, prev >>
    /\ slept' = TRUE

\* what requests.get(full_link, headers=headers) can do: return, raise, or,
\* having no timeout argument, wait for the server without end
DetailOutcomes == { "ok", "error", "hang" }

\* resp = requests.get(full_link, headers=headers) and the parse of its body;
\* an exception goes to the card's  except: pass  and the loop takes the next
\* card; a call that does not return leaves the process in it
DetailFetch ==
    /\ pc = "detail"
    /\ detailRun' = Inc(detailRun, cur.id)
    /\ \E res \in DetailOutcomes :
         CASE res = "ok" ->
                /\ pc' = "summary"
                /\ ev' = "detail_ok"
                /\ UNCHANGED << cardIdx, cur >>
           [] res = "error" ->
                /\ pc' = "card"
                /\ ev' = "detail_failed"
                /\ cardIdx' = cardIdx + 1
                /\ cur' = NoCur
           [] res = "hang" ->
                /\ pc' = "hung"
                /\ ev' = "detail_hangs"
                /\ UNCHANGED << cardIdx, cur >>
    /\ UNCHANGED << config, file, run, seen_jobs, files_changed, new_found, srcIdx, towrite,
                    abortCause, summRun, sentRun, sentTotal, undelivered, lastMsg,
                    fileAtStart, fetchRes, listingRun, writes, reads, prev >>
    /\ slept' = FALSE

\* what get_ai_summary can return: None (no key, the call raised, the content
\* is not JSON or is null), a dict with fields ("object"), an empty dict
\* ("empty"), or JSON that is no dict, such as a list ("nonobject")
SummaryResults(key) ==
    IF ~key THEN { "None" } ELSE { "None", "object", "empty", "nonobject" }

\* the test  if data:
Truthy(data) == data \in { "object", "nonobject" }

\* the fields the parser of a site appends to the message
SummaryFields(site) ==
    IF site = "bdjobs.com" THEN { "org", "edu", "exp", "sal" } ELSE { "org", "edu", "exp" }

\* a message that always carries the summary's fields
MessageAlwaysFields(c) ==
    [id |-> c.id, title |-> c.title, link |-> c.link, site |-> c.site,
     fields |-> SummaryFields(c.site)]

\* msg: the title and the link, and the summary's fields when there is one
Message(c) ==
    [id |-> c.id, title |-> c.title, link |-> c.link, site |-> c.site,
     fields |-> IF Truthy(c.data) THEN SummaryFields(c.site) ELSE {}]

\* data = get_ai_summary(...) and the making of msg; data.get on JSON that is
\* no dict raises into the card's  except: pass
Summarize ==
    /\ pc = "summary"
    /\ summRun' = Inc(summRun, cur.id)
    /\ \E data \in SummaryResults(OPENROUTER_API_KEY) :
         IF data = "nonobject"
         THEN /\ pc' = "card"
              /\ ev' = "format_error"
              /\ cardIdx' = cardIdx + 1
              /\ cur' = NoCur
         ELSE /\ pc' = "send"
              /\ ev' = IF data = "object" THEN "summarized"
                       ELSE IF data = "empty" THEN "summary_empty" ELSE "summary_absent"
              /\ cur' = [cur EXCEPT !.data = data]
              /\ UNCHANGED cardIdx
    /\ UNCHANGED << config, file, run, seen_jobs, files_changed, new_found, srcIdx, towrite,
                    abortCause, detailRun, sentRun, sentTotal, undelivered, lastMsg,
                    fileAtStart, fetchRes, listingRun, writes, reads, slept, prev >>

\* a send_telegram without the try: the exception leaves the card's body
NotifyErrorPcRaises == "card"

\* where send_telegram's caller goes on when requests.post raises:
\* except: pass, and the call returns
NotifyErrorPc == "sleep"

\* send_telegram(msg)
SendTelegram ==
    /\ pc = "send"
    /\ sentRun' = Inc(sentRun, cur.id)
    /\ sentTotal' = Inc(sentTotal, cur.id)
    /\ lastMsg' = Message(cur)
    /\ \E ok \in BOOLEAN :
         IF ok
         THEN /\ pc' = "sleep"
              /\ ev' = "sent"
              /\ UNCHANGED << undelivered, abortCause >>
         ELSE /\ pc' = NotifyErrorPc
              /\ ev' = "notify_failed"
              /\ undelivered' = undelivered \cup { cur.id }
              /\ abortCause' = IF NotifyErrorPc = "aborted" THEN "notify" ELSE abortCause
    /\ UNCHANGED << config, file, run, seen_jobs, files_changed, new_found, srcIdx, cardIdx,
                    cur, towrite, detailRun, summRun, fileAtStart, fetchRes, listingRun, writes, reads, slept, prev >>

\* time.sleep(2), then the next card
Sleep ==
    /\ pc = "sleep"
    /\ pc' = "card"
    /\ cardIdx' = cardIdx + 1
    /\ cur' = NoCur
    /\ ev' = "slept"
    /\ lastMsg' = NoMsg
    /\ UNCHANGED << config, file, run, seen_jobs, files_changed, new_found, srcIdx, towrite,
                    abortCause, detailRun, summRun, sentRun, sentTotal, undelivered,
                    fileAtStart, fetchRes, listingRun, writes, reads, prev >>
    /\ slept' = TRUE

\* a main that rewrites the file on every run
ShouldSaveAlways(changed) == TRUE

\* the test  if files_changed:
ShouldSave(changed) == changed

\* the end of main's loop and the decision to save
SaveDecision ==
    /\ pc = "source"
    /\ srcIdx > Len(URLS)
    /\ pc' = IF ShouldSave(files_changed) THEN "save" ELSE "done"
    /\ ev' = "decided"
    /\ UNCHANGED << config, file, run, locals, abortCause, counts, fileAtStart, fetchRes, listingRun,
                    writes, reads, slept, prev >>

\* open(HISTORY_FILE, "w"): the file is emptied
SaveOpen ==
    /\ pc = "save"
    /\ \E ok \in BOOLEAN :
         IF ok
         THEN /\ file' = {}
              /\ towrite' = seen_jobs
              /\ writes' = writes + 1
              /\ pc' = "write"
              /\ ev' = "opened"
              /\ UNCHANGED abortCause
         ELSE /\ pc' = "aborted"
              /\ abortCause' = "save"
              /\ ev' = "save_failed"
              /\ UNCHANGED << file, towrite, writes >>
    /\ UNCHANGED << config, run, seen_jobs, files_changed, new_found, srcIdx, cardIdx, cur,
                    counts, fileAtStart, fetchRes, listingRun, reads, slept, prev >>

\* for item in seen_set: f.write(item + "\n"), in the set's order
SaveWrite ==
    /\ pc = "write"
    /\ towrite # {}
    /\ \E item \in towrite :
         /\ file' = file \cup { item }
         /\ towrite' = towrite \ { item }
    /\ ev' = "wrote"
    /\ UNCHANGED << config, pc, run, seen_jobs, files_changed, new_found, srcIdx, cardIdx,
                    cur, abortCause, counts, fileAtStart, fetchRes, listingRun, writes, reads, slept, prev >>

\* the end of the with block, and of main
SaveClose ==
    /\ pc = "write"
    /\ towrite = {}
    /\ pc' = "done"
    /\ ev' = "saved"
    /\ UNCHANGED << config, file, run, locals, abortCause, counts, fileAtStart, fetchRes, listingRun,
                    writes, reads, slept, prev >>

(* ------------------------------- runs ---------------------------------- *)
\* the process is started again
NextRun ==
    /\ pc \in Stopped
    /\ run < MaxRuns
    /\ run' = run + 1
    /\ prev' = IF pc = "done"
               THEN [done |-> TRUE, fetched |-> OkSites, undelivered |-> undelivered]
               ELSE NoPrev
    /\ pc' = "boot"
    /\ seen_jobs' = {}
    /\ files_changed' = FALSE
    /\ new_found' = FALSE
    /\ srcIdx' = 1
    /\ cardIdx' = 1
    /\ cur' = NoCur
    /\ towrite' = {}
    /\ abortCause' = "none"
    /\ ev' = "start"
    /\ lastMsg' = NoMsg
    /\ fileAtStart' = file
    /\ fetchRes' = NoFetch
    /\ listingRun' = [s \in Sites |-> 0]
    /\ detailRun' = Zero
    /\ summRun' = Zero
    /\ sentRun' = Zero
    /\ writes' = 0
    /\ reads' = 0
    /\ slept' = TRUE
    /\ undelivered' = {}
    /\ UNCHANGED << config, file, sentTotal >>

\* the process is killed, or the machine stops, at any step
Crash ==
    /\ pc \notin Stopped
    /\ pc' = "crashed"
    /\ ev' = "crash"
    /\ UNCHANGED << config, file, run, locals, abortCause, counts, fileAtStart, fetchRes, listingRun,
                    writes, reads, slept, prev >>

Next ==
    \/ ModuleLoad
    \/ LoadHistory
    \/ FetchSource
    \/ CardStep
    \/ ParserReturn
    \/ DetailFetch
    \/ Summarize
    \/ SendTelegram
    \/ Sleep
    \/ SaveDecision
    \/ SaveOpen
    \/ SaveWrite
    \/ SaveClose
    \/ NextRun

Spec == Init /\ [][Next]_vars

(* ------------------- functions applied on their own -------------------- *)
mainVars ==
    << OPENROUTER_API_KEY, OPENAI_API_KEY, listing, file, pc, run, seen_jobs,
       files_changed, new_found, srcIdx, cardIdx, cur, towrite, abortCause, ev,
       lastMsg, fileAtStart, fetchRes, listingRun, detailRun, summRun, sentRun, sentTotal,
       undelivered, writes, reads, slept, prev >>

SeqsUpTo(S, n) == UNION { [1..m -> S] : m \in 0..n }

KwConsultant == <<"C","o","n","s","u","l","t","a","n","t">>
KwClimate == <<"C","l","i","m","a","t","e">>
KwSic == <<"S","I","C">>

\* keyword lists the filter is applied with: KEYWORDS, and the short lists
\* over three keywords, the empty list among them
FilterKeywordLists ==
    { KEYWORDS } \cup SeqsUpTo({ KwConsultant, KwClimate, KwSic }, MaxKeywords)

FilterTitles == { TitleWash, TitleDriver, TitleUpper, TitleSenior, TitleMusic, << >> }

FilterInputs ==
    { [kind |-> "filter", done |-> FALSE, title |-> t, keywords |-> k,
       passes |-> FALSE, outcome |-> "none"] :
        t \in FilterTitles, k \in FilterKeywordLists }

\* hrefs a card can carry: a path from the root of the site, or an absolute
\* URL of one of the sites or of another host
IdentityHrefs ==
    { Rel(p) : p \in 1..2 }
        \cup { Abs(h, p) : h \in Sites \cup { "other.example" }, p \in 1..2 }

\* two cards of one listing, each with its href
IdentityInputs ==
    { [kind |-> "identity", done |-> FALSE, base |-> b, hrefA |-> x, hrefB |-> y,
       idA |-> 0, idB |-> 0, outcomeB |-> "none"] :
        b \in Sites, x \in IdentityHrefs, y \in IdentityHrefs }

\* what str.strip() removes at both ends
Whitespace == { " ", "\t", "\n" }

RECURSIVE LStrip(_)
LStrip(s) == IF s # << >> /\ Head(s) \in Whitespace THEN LStrip(Tail(s)) ELSE s

RECURSIVE RStrip(_)
RStrip(s) ==
    IF s # << >> /\ s[Len(s)] \in Whitespace THEN RStrip(SubSeq(s, 1, Len(s) - 1)) ELSE s

\* line.strip()
Strip(s) == LStrip(RStrip(s))

\* for line in f: the text cut after each newline; what follows the last
\* newline is a line when it is not empty
RECURSIVE FileLines(_)
FileLines(text) ==
    IF text = << >> THEN << >>
    ELSE LET ends == { i \in 1..Len(text) : text[i] = "\n" }
             n == IF ends = {} THEN Len(text)
                  ELSE CHOOSE i \in ends : \A j \in ends : i <= j
         IN  << SubSeq(text, 1, n) >> \o FileLines(SubSeq(text, n + 1, Len(text)))

\* set(line.strip() for line in f)
load_history(text) == { Strip(FileLines(text)[i]) : i \in 1..Len(FileLines(text)) }

\* a save that opens the file with mode "a"
OpenAppends(old) == old

\* open(HISTORY_FILE, "w"): the file is emptied
OpenTruncates(old) == << >>

\* for item in seen_set: f.write(f"{item}\n")
RECURSIVE WriteItems(_, _)
WriteItems(text, items) ==
    IF items = << >> THEN text
    ELSE WriteItems(text \o Head(items) \o << "\n" >>, Tail(items))

\* save_history over a file that holds old, the set iterated in the order items
save_history(old, items) == WriteItems(OpenTruncates(old), items)

\* the orders a set can be iterated in
Orders(S) ==
    { o \in [1..Cardinality(S) -> S] : \A i, j \in 1..Cardinality(S) : i # j => o[i] # o[j] }

\* identifiers seen_jobs can hold: digests, and what load_history makes of a
\* hand-edited line (a blank inside) and of an empty line
HistoryItems == { <<"a","1">>, <<"b","2">>, <<"c"," ","3">>, << >> }

\* what the file holds before the save: nothing, a line with blanks around
\* an identifier and an empty line, an identifier without its newline
OldTexts ==
    { << >>,
      <<" ","d","4","\t","\n","\n">>,
      <<"a","1","\n","e","5">> }

RoundTripInputs ==
    { [kind |-> "roundtrip", done |-> FALSE, S |-> s, old |-> o,
       text |-> << >>, loaded |-> {}] :
        s \in SUBSET HistoryItems, o \in OldTexts }

InitFunctions ==
    /\ OPENROUTER_API_KEY = TRUE
    /\ OPENAI_API_KEY = FALSE
    /\ listing = [s \in Sites |-> << >>]
    /\ file = {}
    /\ probe \in FilterInputs \cup IdentityInputs \cup RoundTripInputs
    /\ StartState

\* full_link and job_id (lines 93-94, 130-131) of two cards, and what the
\* parser's loop body does with the second once the first is in seen_jobs
ApplyIdentity ==
    /\ probe.kind = "identity"
    /\ ~probe.done
    /\ LET idA == Md5(UrlJoin(probe.base, probe.hrefA))
           idB == Md5(UrlJoin(probe.base, probe.hrefB))
       IN  probe' = [probe EXCEPT
                       !.done = TRUE,
                       !.idA = idA,
                       !.idB = idB,
                       !.outcomeB = CardOutcomeWith(probe.base,
                                        Card(TRUE, TitleWash, probe.hrefB),
                                        MarkSeen({}, idA), TRUE)]
    /\ UNCHANGED mainVars

\* the filter of line 91/128 over a keyword list, and what the parser's loop
\* body then does with a well-formed link of that title
ApplyFilter ==
    /\ probe.kind = "filter"
    /\ ~probe.done
    /\ LET lowered == [i \in 1..Len(probe.keywords) |-> Lower(probe.keywords[i])]
           passes == AnyIn(lowered, probe.title)
       IN  probe' = [probe EXCEPT
                       !.done = TRUE,
                       !.passes = passes,
                       !.outcome = CardOutcomeWith("unjobs.org",
                                       Card(TRUE, probe.title, Rel(1)), {}, passes)]
    /\ UNCHANGED mainVars

\* save_history(S) over the old file, then load_history of what it wrote
ApplyRoundTrip ==
    /\ probe.kind = "roundtrip"
    /\ ~probe.done
    /\ \E items \in Orders(probe.S) :
         LET text == save_history(probe.old, items)
         IN  probe' = [probe EXCEPT
                         !.done = TRUE,
                         !.text = text,
                         !.loaded = load_history(text)]
    /\ UNCHANGED mainVars

NextFunctions ==
    \/ ApplyFilter
    \/ ApplyIdentity
    \/ ApplyRoundTrip

SpecFunctions == InitFunctions /\ [][NextFunctions]_vars

NextCrash == Next \/ Crash

SpecCrash == Init /\ [][NextCrash]_vars

(* ------------------------------ claims --------------------------------- *)
NoCallsFor(id) == detailRun[id] = 0 /\ summRun[id] = 0 /\ sentRun[id] = 0

\* the titles of the model's pages that pass the keyword filter
MatchingTitles == { t \in Titles : MatchesKeywords(t) }

\* identifiers of the cards of a site's listing that have a title, pass the
\* keyword filter and have a link
GoodIds(s) ==
    { Md5(UrlJoin(s, listing[s][k].href)) :
        k \in { j \in 1..Len(listing[s]) :
                  /\ NeedsTitleTag(s) => listing[s][j].tag
                  /\ listing[s][j].title \in MatchingTitles
                  /\ listing[s][j].href # NoHref } }

LoopOver == srcIdx = Len(URLS) + 1

\* C1, as stated: when main() has run to its end twice in succession over the
\* same source content, the second run calls send_telegram zero times and
\* leaves the history file holding the set the first run left.
C1_IdempotentAsStated ==
    (pc = "done" /\ prev.done) =>
        /\ \A id \in AllIds : sentRun[id] = 0
        /\ file = fileAtStart

\* C1, amended: the same, for a second run that fetches and parses no source
\* that the first run failed to fetch or parse.
C1_IdempotentWhenFetchedBefore ==
    (pc = "done" /\ prev.done /\ OkSites \subseteq prev.fetched) =>
        /\ \A id \in AllIds : sentRun[id] = 0
        /\ file = fileAtStart

C1_Witness ==
    /\ pc = "done"
    /\ prev.done
    /\ OkSites = Sites
    /\ prev.fetched = Sites
    /\ \E id \in file : sentTotal[id] = 1

\* C2: over any sequence of runs, crashed ones included, send_telegram is
\* called at most once for a posting identifier.
C2_NotifiedAtMostOnce == \A id \in AllIds : sentTotal[id] <= 1

\* C3: when the fetch or the parse of a source fails, main() still goes
\* through every other source; at the end of the loop the history holds what
\* was loaded and the matching postings of the sources that were fetched,
\* each new one processed once, and nothing of the failing source.
C3_SourceFailureIsolated ==
    (pc \in { "done", "save", "write" }) =>
        LET expected == UNION { GoodIds(s) : s \in OkSites }
        IN  /\ \A s \in Sites : fetchRes[s] # "none"
            /\ seen_jobs = fileAtStart \cup expected
            /\ \A id \in AllIds :
                 /\ detailRun[id] = IF id \in expected \ fileAtStart THEN 1 ELSE 0
                 /\ sentRun[id] <= detailRun[id]

C3_Witness ==
    /\ pc = "done"
    /\ \E s \in Sites :
         /\ fetchRes[s] \in { "fetch_failed", "parse_failed" }
         /\ GoodIds(s) \ seen_jobs # {}
    /\ \E id \in seen_jobs \ fileAtStart : sentRun[id] = 1

\* C4: when get_ai_summary returns None for a new matching posting, the
\* posting is in the history and send_telegram is called once for it, with a
\* message of the title and the link and no summary field.
C4_SummaryAbsentTitleOnly ==
    /\ ev = "summary_absent" =>
         pc = "send" /\ cur.data = "None" /\ cur.id \in seen_jobs /\ sentRun[cur.id] = 0
    /\ (pc = "sleep" /\ cur.data = "None") =>
         /\ cur.id \in seen_jobs
         /\ sentRun[cur.id] = 1
         /\ lastMsg = [id |-> cur.id, title |-> cur.title, link |-> cur.link,
                       site |-> cur.site, fields |-> {}]
    /\ \A id \in AllIds : sentRun[id] <= 1

C4_Witness ==
    /\ pc = "sleep"
    /\ cur.data = "None"
    /\ OPENROUTER_API_KEY
    /\ lastMsg.title = TitleWash

\* C5: when the detail fetch fails, or the summary is JSON of the wrong
\* shape, the outcome is folded into an absent summary and the posting, marked
\* seen, goes on to send_telegram.
C5_DetailFailureFoldedToAbsent ==
    (ev \in { "detail_failed", "format_error" }) =>
        (pc = "send" /\ cur.data = "None" /\ cur.id \in seen_jobs)

\* C6: a failing send_telegram raises nothing: the parser goes on to the
\* sleep and the next card, the identifier stays in the history, is in the
\* file when main ends, and the next run makes no call for it.
C6_NotifyFailureAbsorbed ==
    /\ ev = "notify_failed" => (pc = "sleep" /\ cur.id \in seen_jobs)
    /\ undelivered \subseteq seen_jobs
    /\ pc = "done" => undelivered \subseteq file
    /\ \A id \in prev.undelivered : id \in fileAtStart /\ NoCallsFor(id)

C6_Witness ==
    /\ pc = "done"
    /\ \E s \in OkSites : GoodIds(s) \cap prev.undelivered # {}

\* C7: a posting whose identifier was in the history at the start of the run
\* gets no detail fetch, no summary and no notification, and a run that adds
\* no identifier does not write the file.
C7_SeenSkippedAndNoWrite ==
    /\ \A id \in fileAtStart : NoCallsFor(id)
    /\ seen_jobs \subseteq fileAtStart => (writes = 0 /\ file = fileAtStart)

C7_Witness ==
    /\ pc = "done"
    /\ writes = 0
    /\ \E s \in OkSites : GoodIds(s) # {} /\ GoodIds(s) \subseteq fileAtStart

\* C8: wherever the process stops, the file holds either all it held at the
\* start of the run or all of the set being saved, and nothing it held at the
\* start is lost.
C8_SaveAtomic ==
    pc \in Stopped =>
        /\ file = fileAtStart \/ file = seen_jobs
        /\ fileAtStart \subseteq file

\* C9: main() ends abnormally only on a failure of load_history or
\* save_history; after any other failure it goes on, and a main() that got
\* past load_history ends only after the decision to save.
C9_OnlyHistoryFailureFatal ==
    /\ pc = "aborted" => abortCause \in { "load", "save" }
    /\ ev \in { "fetch_failed", "parse_failed", "card_error", "detail_failed",
                "format_error", "summary_absent", "notify_failed" } =>
         pc \in { "source", "card", "send", "sleep" }
    /\ (pc \in { "done", "aborted" } /\ abortCause # "load") => LoopOver

C9_Witness ==
    /\ pc = "done"
    /\ \E s \in Sites : fetchRes[s] = "fetch_failed"
    /\ \E id \in AllIds : detailRun[id] = 1 /\ summRun[id] = 0
    /\ undelivered # {}

\* C10: with any of the credentials unset the program starts and main() runs.
C10_UnsetCredentialsStart == ~OPENROUTER_API_KEY => pc # "import_error"

\* a card without its title element (where the parser reads one) or without
\* its href
Malformed(site, card) == (NeedsTitleTag(site) /\ ~card.tag) \/ card.href = NoHref

\* C11: the step of a parser over a card whose title element or href is
\* missing changes nothing but the position in the listing: no identifier is
\* added, no call is made, and the parser is at the next card in the state it
\* had before, so the other cards are processed as if the card were absent.
C11_MalformedCardSkipped ==
    [][ ( /\ pc = "card"
          /\ cardIdx <= Len(listing[URLS[srcIdx]])
          /\ Malformed(URLS[srcIdx], listing[URLS[srcIdx]][cardIdx]) )
        => ( /\ pc' = "card"
             /\ cardIdx' = cardIdx + 1
             /\ UNCHANGED << seen_jobs, new_found, files_changed, srcIdx, cur, file,
                             detailRun, summRun, sentRun, sentTotal, undelivered,
                             fetchRes, listingRun, writes >> ) ]_vars

\* a run that went over a link without href standing between two new
\* postings, both notified
C11_Witness ==
    /\ pc = "done"
    /\ \E s \in OkSites :
         /\ Len(listing[s]) >= 3
         /\ Malformed(s, listing[s][2])
         /\ \E a \in GoodIds(s), b \in GoodIds(s) :
              a # b /\ sentRun[a] = 1 /\ sentRun[b] = 1

\* two characters that are the same letter, whatever their case
SameLetter(a, b) ==
    a = b \/ \E i \in 1..Len(UpperChars) : { a, b } = { UpperChars[i], LowerChars[i] }

\* k occurs in t at some place, letter by letter, whatever the case
OccursIn(k, t) ==
    \E o \in 0..(Len(t) - Len(k)) : \A j \in 1..Len(k) : SameLetter(k[j], t[o + j])

\* C12: a title passes the filter exactly when one keyword at least occurs
\* in it, case ignored; with no keyword no title passes, and the parser then
\* leaves the posting out (no identifier, no call).
C12_FilterSemantics ==
    (probe.kind = "filter" /\ probe.done) =>
        /\ probe.passes <=>
             \E i \in 1..Len(probe.keywords) : OccursIn(probe.keywords[i], probe.title)
        /\ probe.keywords = << >> => ~probe.passes
        /\ ~probe.passes <=> probe.outcome = "filtered"
        /\ probe.passes <=> probe.outcome = "new"

\* "CLIMATE OFFICER" passes on the keyword "Climate" alone
C12_Witness ==
    /\ probe.kind = "filter"
    /\ probe.done
    /\ probe.title = TitleUpper
    /\ probe.keywords = << KwClimate >>
    /\ probe.passes

\* the page an href of a listing of a site points to: the host (the site's own
\* for a path from the root) and the path
Target(site, href) == << IF href.host = "" THEN site ELSE href.host, href.path >>

\* C13: two hrefs of a site's listing that point to the same page, one as a
\* path and one as an absolute URL or both alike, get the same identifier, and
\* the second is then found in the history and skipped.
C13_IdentityStableAcrossForms ==
    (probe.kind = "identity" /\ probe.done
       /\ Target(probe.base, probe.hrefA) = Target(probe.base, probe.hrefB)) =>
        /\ probe.idA = probe.idB
        /\ probe.outcomeB = "seen"

\* /1 and https://bdjobs.com/1 in a listing of bdjobs
C13_Witness ==
    /\ probe.kind = "identity"
    /\ probe.done
    /\ probe.base = "bdjobs.com"
    /\ probe.hrefA = Rel(1)
    /\ probe.hrefB = Abs("bdjobs.com", 1)
    /\ probe.outcomeB = "seen"

\* C14: when the detail fetch, the summary and the notification of a new
\* posting begin, its identifier is in seen_jobs and the parser's flag is set,
\* no call having been made for it before; the identifier of every posting a
\* call was made for stays in seen_jobs to the end of the run, however the
\* calls went, and main's flag is set with it.
C14_MarkedSeenFirst ==
    /\ pc \in { "detail", "summary", "send", "sleep" } =>
         cur.id \in seen_jobs /\ new_found
    /\ pc = "detail" => NoCallsFor(cur.id)
    /\ \A id \in AllIds : ~NoCallsFor(id) => id \in seen_jobs
    /\ (LoopOver /\ \E id \in AllIds : ~NoCallsFor(id)) => files_changed

\* a finished run with one posting whose detail fetch failed and one whose
\* notification failed, both in seen_jobs
C14_Witness ==
    /\ pc = "done"
    /\ \E id \in seen_jobs \ fileAtStart : detailRun[id] = 1 /\ summRun[id] = 0
    /\ undelivered # {}

\* identifiers added in this run: those a detail fetch was made for
Added == { id \in AllIds : detailRun[id] > 0 }

\* C15: a run reads the history file once, before it fetches any source, and
\* writes it at most once, after the last source; it writes exactly when
\* seen_jobs differs from the set it loaded, and when main has ended the file
\* holds the loaded set and every identifier added in the run.
C15_LoadedOnceFlushedOnce ==
    /\ reads <= 1
    /\ writes <= 1
    /\ reads = 0 => (fetchRes = NoFetch /\ writes = 0)
    /\ pc \notin { "boot", "load", "import_error" } => reads = 1
    /\ writes = 1 => LoopOver
    /\ pc = "done" =>
         /\ writes = 1 <=> seen_jobs # LoadResult(fileAtStart)
         /\ LoadResult(file) = LoadResult(fileAtStart) \cup Added

\* a finished run that loaded a non-empty history, added to it and wrote it
C15_Witness ==
    /\ pc = "done"
    /\ fileAtStart # {}
    /\ Added # {}
    /\ writes = 1
    /\ reads = 1

\* C16: a detail page is fetched only when no earlier detail fetch of the same
\* source in this run is still without a time.sleep(2) after it.
C16_SleepBetweenDetailFetches ==
    [][ detailRun' # detailRun => slept ]_vars

\* C17: no network call of a run waits without end, so the run is never
\* stuck inside a call that does not return.
C17_NoCallBlocksForever == pc # "hung"

\* identifiers that two cards of a site's listing both carry
Repeated(s) ==
    { id \in GoodIds(s) :
        \E i, j \in 1..Len(listing[s]) :
            /\ i < j
            /\ listing[s][i].href # NoHref /\ listing[s][j].href # NoHref
            /\ Md5(UrlJoin(s, listing[s][i].href)) = id
            /\ Md5(UrlJoin(s, listing[s][j].href)) = id
            /\ listing[s][i].title \in MatchingTitles
            /\ listing[s][j].title \in MatchingTitles }

\* C18: in one run every identifier has at most one detail fetch, one
\* get_ai_summary call and one send_telegram call, and every source at most
\* one listing fetch.
C18_NoRetries ==
    /\ \A id \in AllIds : detailRun[id] <= 1 /\ summRun[id] <= 1 /\ sentRun[id] <= 1
    /\ \A s \in Sites : listingRun[s] <= 1

\* a finished run in which a listing fetch failed, a detail fetch failed, a
\* notification failed and a posting listed twice was fetched
C18_Witness ==
    /\ pc = "done"
    /\ \E s \in Sites : fetchRes[s] = "fetch_failed" /\ listingRun[s] = 1
    /\ \E s \in OkSites : \E id \in Repeated(s) : detailRun[id] = 1
    /\ \E id \in AllIds : detailRun[id] = 1 /\ summRun[id] = 0

\* C19: load_history of the file save_history(S) wrote is S, whatever the
\* file held before, and the file has one line for each identifier of S and
\* no other.
C19_HistoryRoundTrip ==
    (probe.kind = "roundtrip" /\ probe.done) =>
        /\ probe.loaded = probe.S
        /\ Len(FileLines(probe.text)) = Cardinality(probe.S)

\* a set of several identifiers, the empty one among them, saved over a file
\* that held an identifier the set has not
C19_Witness ==
    /\ probe.kind = "roundtrip"
    /\ probe.done
    /\ Cardinality(probe.S) >= 2
    /\ << >> \in probe.S
    /\ load_history(probe.old) \ probe.S # {}

\* the run has its history in memory
HistoryLoaded == pc \notin { "boot", "load", "import_error" } /\ abortCause # "load"

\* once loaded, seen_jobs holds the loaded set, and beyond it only identifiers
\* of cards of successfully fetched listings whose title passes the filter;
\* it holds every identifier send_telegram was called for
C20_HistoryOfDetected ==
    HistoryLoaded =>
        /\ LoadResult(fileAtStart) \subseteq seen_jobs
        /\ seen_jobs \ LoadResult(fileAtStart) \subseteq UNION { GoodIds(s) : s \in OkSites }
        /\ \A id \in AllIds : sentRun[id] > 0 => id \in seen_jobs

\* a card that fails the filter leaves seen_jobs as it was
C20_FilteredNotRecorded == ev' = "filtered" => seen_jobs' = seen_jobs

\* C20: in every state of a run seen_jobs is a superset of the loaded history,
\* every identifier added is that of a card of a successfully fetched source
\* whose title passed the filter, a card failing the filter records nothing,
\* and every identifier send_telegram was called for is in seen_jobs.
C20_HistoryGrowsByDetected == []C20_HistoryOfDetected /\ [][C20_FilteredNotRecorded]_vars

\* a finished run that loaded a history, met a card failing the filter, had a
\* source fail, and notified a posting it added
C20_Witness ==
    /\ pc = "done"
    /\ fileAtStart # {}
    /\ \E s \in Sites : fetchRes[s] # "ok"
    /\ \E s \in OkSites : \E k \in 1..Len(listing[s]) :
         listing[s][k].tag /\ listing[s][k].title \notin MatchingTitles
    /\ \E id \in seen_jobs \ fileAtStart : sentRun[id] = 1
====
